---- MODULE Spec2Model ----
(***************************************************************************)
(* Complaint lifecycle and realtime synchronisation of the EV bicycle      *)
(* service portal: the CustomerDashboard and CompanyDashboard components,  *)
(* the complaints table they read and write through the store client, and  *)
(* the change notifications that make them re-fetch.                       *)
(*                                                                         *)
(* A request to the store is three steps: the handler issues it, the       *)
(* server serves it (reads or writes the table), and the response resumes  *)
(* the handler after its await.  Responses of different requests may       *)
(* arrive in any order.                                                    *)
(***************************************************************************)
EXTENDS Integers, Sequences, FiniteSets, Bags, TLC

\* ------------------------------------------------------------- bounds
MaxMutations == 1    \* writes the table accepts in one behaviour
MaxInFlight == 2     \* requests of one kind a view has in flight at a time
MaxEffects == 2      \* runs of the subscription effects in one behaviour
MaxUpdates == 2      \* updates of the staff the table serves in one behaviour
MaxComplaints == 5   \* complaints in the list the staff view derives from

\* ---------------------------------------------------------- data model
Users == {"u1", "u2"}
NoUser == "-"
AllScope == "*"

Statuses == {"pending", "in-progress", "completed", "cancelled"}
IssueTypes ==
  {"battery", "motor", "brakes", "electrical", "mechanical", "display", "other"}
Priorities == {"low", "medium", "high"}
Filters == {"all", "pending", "in-progress", "completed"}

\* useState initial value of formData, and the value handleSubmit resets it to
EmptyForm ==
  [bicycle_model |-> "", issue_type |-> "", description |-> "",
   priority |-> "medium"]

\* values the form controls are driven with
ModelInputs == {"", "EV-Sport 2024"}
IssueInputs == {"", "battery"}
DescriptionInputs == {"", "Won't hold charge"}
PriorityInputs == {"medium", "high"}
NotesInputs == {"", "checked"}
StatusInputs == {"pending", "completed"}

VARIABLES
  store,    \* the complaints table, rows in insertion order
  ver,      \* number of writes the table has accepted (its recency)
  cust,     \* state of the CustomerDashboard instance
  staff,    \* state of the CompanyDashboard instance
  subs,     \* subscriptions registered with the realtime client
  notifs,   \* change notifications on their way to a listener
  fetches,  \* select requests in flight
  writes,   \* insert and update requests in flight
  last,     \* what the last step did: operation, view, error reported
  app       \* state of the App component and of the auth client

vars == <<store, ver, cust, staff, subs, notifs, fetches, writes, last, app>>

\* ------------------------------------------------------- store queries
RECURSIVE OrderByCreatedDesc(_)
\* .order("created_at", { ascending: false })
OrderByCreatedDesc(rows) ==
  IF rows = <<>> THEN <<>>
  ELSE LET i == CHOOSE k \in 1..Len(rows) :
                  \A j \in 1..Len(rows) :
                    \/ rows[k].created_at > rows[j].created_at
                    \/ rows[k].created_at = rows[j].created_at /\ k <= j
           rest == [j \in 1..(Len(rows) - 1) |->
                      IF j < i THEN rows[j] ELSE rows[j + 1]]
       IN <<rows[i]>> \o OrderByCreatedDesc(rest)

\* a select without .order(): the rows in insertion order
SelectCustomer_Unordered(st, uid) == SelectSeq(st, LAMBDA c : c.user_id = uid)

\* CustomerDashboard.fetchComplaints: select * where user_id = uid, newest first
SelectCustomer(st, uid) ==
  OrderByCreatedDesc(SelectSeq(st, LAMBDA c : c.user_id = uid))

\* CompanyDashboard.fetchComplaints: select all rows, newest first
SelectAll(st) == OrderByCreatedDesc(st)

\* the rows a fetch with the given scope reads
Query(st, scope) ==
  IF scope = AllScope THEN SelectAll(st) ELSE SelectCustomer(st, scope)

\* the filter of a view's postgres_changes subscription: does a change of a
\* row owned by `owner` concern a subscription with this scope
Matches(scope, owner) == scope = AllScope \/ scope = owner

\* ------------------------------------------------------------ the table
\* the row an insert appends: the payload, the generated id, and the
\* timestamps the table assigns (CustomerDashboard.jsx shows "Updated" only
\* when updated_at differs from created_at, so both start equal)
InsertRow(st, payload, now) ==
  [id |-> Len(st) + 1,
   user_id |-> payload.user_id,
   bicycle_model |-> payload.bicycle_model,
   issue_type |-> payload.issue_type,
   description |-> payload.description,
   priority |-> payload.priority,
   status |-> payload.status,
   company_notes |-> "",
   created_at |-> now,
   updated_at |-> now]

\* an update that clears the notes unless it writes them
ApplyPatch_ClearsNotes(row, patch) ==
  [f \in DOMAIN row |-> IF f \in DOMAIN patch THEN patch[f]
                        ELSE IF f = "company_notes" THEN ""
                        ELSE row[f]]

\* .update(patch).eq("id", id): the patched columns replace the row's, every
\* other column stays
ApplyPatch(row, patch) ==
  [f \in DOMAIN row |-> IF f \in DOMAIN patch THEN patch[f] ELSE row[f]]

\* the time the table stamps on the next write
ServerNow == ver + 1

\* new Date() on a client: its clock is not the table's; a clock that is
\* behind (earlier than every row of the table) and one that is in step
ClientClock == {-1, ServerNow}

\* ---------------------------------------------------------- subscriptions
\* a cleanup that forgets subscription.unsubscribe()
Unsubscribe_Leak(ss, v) == ss

\* subscription.unsubscribe() in the effect's cleanup: the view's
\* subscription leaves the realtime client
Unsubscribe(ss, v) == {s \in ss : s.view # v}

\* notifications of a view's released subscriptions are no longer delivered
LiveNotifs(ns, ss) ==
  LET dead == {n \in BagToSet(ns) :
                 ~\E s \in ss : s.view = n.view /\ s.eff = n.eff}
  IN [n \in BagToSet(ns) \ dead |-> ns[n]]

\* a subscription without the filter on user_id
Subscription_Unfiltered(v, inst, eff, scope) ==
  [view |-> v, inst |-> inst, eff |-> eff, scope |-> AllScope,
   state |-> "joining"]

\* supabase.channel(..).on("postgres_changes", {filter}, listener).subscribe()
Subscription(v, inst, eff, scope) ==
  [view |-> v, inst |-> inst, eff |-> eff, scope |-> scope, state |-> "joining"]

\* a change of a row owned by `owner` is announced to every joined
\* subscription whose filter matches
Announce(ns, ss, owner, v) ==
  ns (+) SetToBag({[view |-> s.view, eff |-> s.eff, ver |-> v] :
                     s \in {t \in ss : t.state = "joined"
                                       /\ Matches(t.scope, owner)}})

\* ----------------------------------------------------------------- fetches
\* the select request fetchComplaints sends; scope is the session.user.id of
\* the closure that calls it (AllScope for the staff view), trig the recency
\* of the change that caused it (0: none)
FetchRequest(v, inst, scope, trig) ==
  [view |-> v, inst |-> inst, scope |-> scope, trig |-> trig,
   phase |-> "sent", data |-> <<>>, dver |-> 0]

InFlight(v) ==
  BagCardinality([r \in {q \in BagToSet(fetches) : q.view = v} |-> fetches[r]])

CanFetch(v) == InFlight(v) < MaxInFlight

\* a listener that ignores the notification
Listener_Deaf(v, inst, scope, trig) == EmptyBag

\* the listener of a subscription, () => { fetchComplaints(); }: the requests
\* one call of it sends
Listener(v, inst, scope, trig) == SetToBag({FetchRequest(v, inst, scope, trig)})

\* the requests left once those of view v are no longer followed
Abandon(bag, v) == [r \in {q \in BagToSet(bag) : q.view # v} |-> bag[r]]

\* a completion that does not install what it fetched
SetComplaints_Skip(view, data, dver) == view

\* setComplaints(data || []): the fetched rows replace the rendered list
SetComplaints(view, data, dver) ==
  [view EXCEPT !.complaints = data, !.shownVer = dver]

\* a catch block that clears the list
OnFetchError_Clear(view) == [view EXCEPT !.complaints = <<>>, !.shownVer = 0]

\* catch (error) { console.error(..) }: the rendered list is left as it is
OnFetchError(view) == view

\* what a step did: the operation, the view it belongs to, the error it
\* reported (console.error / alert), the recency of the change that caused
\* it, for a listener call the effect run that registered the listener, and
\* for a served update of the staff the row it wrote and the status the row
\* had before
Step(op, v, err, trig) ==
  [op |-> op, view |-> v, err |-> err, trig |-> trig, eff |-> 0,
   row |-> 0, was |-> "-"]

\* a step that resumes no handler of a view
Quiet == Step("-", "-", "none", 0)

\* ----------------------------------------------------- staff projections
\* a filter without its final else: an unknown value selects nothing
FilterComplaints_Strict(complaints, filter) ==
  IF filter = "all" THEN complaints
  ELSE SelectSeq(complaints, LAMBDA c : c.status = filter)

\* CompanyDashboard.filterComplaints: the rows the table of the view shows
FilterComplaints(complaints, filter) ==
  IF filter = "pending"
    THEN SelectSeq(complaints, LAMBDA c : c.status = "pending")
  ELSE IF filter = "in-progress"
    THEN SelectSeq(complaints, LAMBDA c : c.status = "in-progress")
  ELSE IF filter = "completed"
    THEN SelectSeq(complaints, LAMBDA c : c.status = "completed")
  ELSE complaints

\* counts that follow the filter
CalculateStats_Filtered(complaints) ==
  LET shown == SelectSeq(complaints,
                         LAMBDA c : staff.filter \in {"all", c.status})
  IN [total |-> Len(shown),
      pending |-> Len(SelectSeq(shown, LAMBDA c : c.status = "pending")),
      inProgress |->
        Len(SelectSeq(shown, LAMBDA c : c.status = "in-progress")),
      completed |-> Len(SelectSeq(shown, LAMBDA c : c.status = "completed"))]

\* CompanyDashboard.calculateStats: the counts of the stat cards
CalculateStats(complaints) ==
  [total |-> Len(complaints),
   pending |-> Len(SelectSeq(complaints, LAMBDA c : c.status = "pending")),
   inProgress |->
     Len(SelectSeq(complaints, LAMBDA c : c.status = "in-progress")),
   completed |-> Len(SelectSeq(complaints, LAMBDA c : c.status = "completed"))]

\* a form a customer may submit (the required fields filled in)
ScenarioForm ==
  [bicycle_model |-> "EV-Sport 2024", issue_type |-> "battery",
   description |-> "Won't hold charge", priority |-> "high"]

\* a submission that takes the status from elsewhere than the constant
SubmitPayload_Status(uid, form) ==
  [user_id |-> uid, bicycle_model |-> form.bicycle_model,
   issue_type |-> form.issue_type, description |-> form.description,
   priority |-> form.priority, status |-> "in-progress"]

\* CustomerDashboard.handleSubmit: the row handed to insert
SubmitPayload(uid, form) ==
  [user_id |-> uid, bicycle_model |-> form.bicycle_model,
   issue_type |-> form.issue_type, description |-> form.description,
   priority |-> form.priority, status |-> "pending"]

\* an update of the status that leaves updated_at alone
StatusPatch_NoStamp(newStatus, now) == [status |-> newStatus]

\* CompanyDashboard.updateComplaintStatus: the patch handed to update
StatusPatch(newStatus, now) == [status |-> newStatus, updated_at |-> now]

\* CompanyDashboard.saveCompanyNotes: the patch handed to update
NotesPatch(notes, now) == [company_notes |-> notes, updated_at |-> now]

\* the table when the browser opens the portal: empty, or holding a request
\* submitted earlier
InitialTables ==
  {<<>>,
   <<InsertRow(<<>>, SubmitPayload("u1", ScenarioForm), 0)>>}

\* ------------------------------------------------------------ view state
Null == [id |-> 0]

\* CustomerDashboard's useState values; inst counts the instances mounted so
\* far, eff the runs of the subscription effect, uid is session.user.id
CustInitial(inst, eff) ==
  [active |-> FALSE, inst |-> inst, eff |-> eff, uid |-> NoUser,
   complaints |-> <<>>, shownVer |-> 0, loading |-> TRUE,
   showForm |-> FALSE, formData |-> EmptyForm]

\* CompanyDashboard's useState values; derive says the effect on
\* [complaints, filter] has still to run
StaffInitial(inst, eff) ==
  [active |-> FALSE, inst |-> inst, eff |-> eff,
   complaints |-> <<>>, shownVer |-> 0, loading |-> TRUE,
   filter |-> "pending", filteredComplaints |-> <<>>,
   stats |-> [total |-> 0, pending |-> 0, inProgress |-> 0, completed |-> 0],
   selectedComplaint |-> Null, companyNotes |-> "", derive |-> FALSE]

\* the accounts of the auth provider: the customers and one of the staff
Accounts == Users \cup {"s1"}

\* the role column of the users table (Login signs customers up; the staff's
\* rows are set to company in the table)
RoleOf(u) == IF u = "s1" THEN "company" ELSE "customer"

\* App's useState values (userRole null is "null"); auth is the user the auth
\* client holds a session of, roleFetches the fetchUserRole calls in flight,
\* started says the answer of getSession() has arrived
AppInitial(auth) ==
  [session |-> NoUser, userRole |-> "null", loading |-> TRUE, auth |-> auth,
   roleFetches |-> EmptyBag, started |-> FALSE]

Init ==
  /\ app = AppInitial(NoUser)
  /\ store \in InitialTables
  /\ ver = 0
  /\ cust = CustInitial(0, 0)
  /\ staff = StaffInitial(0, 0)
  /\ subs = {}
  /\ notifs = EmptyBag
  /\ fetches = EmptyBag
  /\ writes = EmptyBag
  /\ last = Quiet

\* --------------------------------------------- CustomerDashboard lifecycle
\* App renders <CustomerDashboard session> for user u (it renders one
\* dashboard at a time): first render, then the effect on [session.user.id]:
\* fetchComplaints() and subscribe
CustMount(u) ==
  /\ ~cust.active
  /\ ~staff.active
  /\ cust.eff + staff.eff < MaxEffects
  /\ CanFetch("cust")
  /\ cust' = [CustInitial(cust.inst + 1, cust.eff + 1) EXCEPT
                !.active = TRUE, !.uid = u]
  /\ fetches' = fetches (+) SetToBag({FetchRequest("cust", cust.inst + 1, u, 0)})
  /\ subs' = subs \cup {Subscription("cust", cust.inst + 1, cust.eff + 1, u)}
  /\ last' = Quiet
  /\ UNCHANGED <<app, store, ver, staff, notifs, writes>>

\* App re-renders the mounted CustomerDashboard with a session of another
\* user: session.user.id changes, so the effect's cleanup runs (unsubscribe)
\* and the effect runs again with the new id; the component state is kept
CustSessionChange(u) ==
  /\ cust.active
  /\ u # cust.uid
  /\ cust.eff + staff.eff < MaxEffects
  /\ CanFetch("cust")
  /\ cust' = [cust EXCEPT !.uid = u, !.eff = cust.eff + 1]
  /\ fetches' = fetches (+) SetToBag({FetchRequest("cust", cust.inst, u, 0)})
  /\ LET released == Unsubscribe(subs, "cust")
     IN /\ subs' = released
                     \cup {Subscription("cust", cust.inst, cust.eff + 1, u)}
        /\ notifs' = LiveNotifs(notifs, released)
  /\ last' = Quiet
  /\ UNCHANGED <<app, store, ver, staff, writes>>

\* App stops rendering the CustomerDashboard: the effect's cleanup runs and
\* the instance with its state is gone; the answers to its fetches find no
\* state to set and are not followed further
CustUnmount ==
  /\ cust.active
  /\ cust' = CustInitial(cust.inst, cust.eff)
  /\ fetches' = Abandon(fetches, "cust")
  /\ subs' = Unsubscribe(subs, "cust")
  /\ notifs' = LiveNotifs(notifs, subs')
  /\ last' = Quiet
  /\ UNCHANGED <<app, store, ver, staff, writes>>

\* ---------------------------------------------- CompanyDashboard lifecycle
\* App renders <CompanyDashboard>: first render, then the effect on []:
\* fetchComplaints() and subscribe; the effect on [complaints, filter] finds
\* an empty list
StaffMount ==
  /\ ~staff.active
  /\ ~cust.active
  /\ cust.eff + staff.eff < MaxEffects
  /\ CanFetch("staff")
  /\ staff' = [StaffInitial(staff.inst + 1, staff.eff + 1) EXCEPT
                 !.active = TRUE]
  /\ fetches' = fetches
                  (+) SetToBag({FetchRequest("staff", staff.inst + 1, AllScope, 0)})
  /\ subs' = subs
      \cup {Subscription("staff", staff.inst + 1, staff.eff + 1, AllScope)}
  /\ last' = Quiet
  /\ UNCHANGED <<app, store, ver, cust, notifs, writes>>

\* App stops rendering the CompanyDashboard
StaffUnmount ==
  /\ staff.active
  /\ staff' = StaffInitial(staff.inst, staff.eff)
  /\ fetches' = Abandon(fetches, "staff")
  /\ subs' = Unsubscribe(subs, "staff")
  /\ notifs' = LiveNotifs(notifs, subs')
  /\ last' = Quiet
  /\ UNCHANGED <<app, store, ver, cust, writes>>

\* the realtime server acknowledges a subscription: from now on changes are
\* announced to it
SubscribeJoined(s) ==
  /\ s \in subs
  /\ s.state = "joining"
  /\ subs' = (subs \ {s}) \cup {[s EXCEPT !.state = "joined"]}
  /\ last' = Quiet
  /\ UNCHANGED <<app, store, ver, cust, staff, notifs, fetches, writes>>

\* ------------------------------------------------------- writes of the table
\* the table accepts an insert and announces the change
TableInsert(payload) ==
  /\ ver < MaxMutations
  /\ store' = Append(store, InsertRow(store, payload, ServerNow))
  /\ ver' = ver + 1
  /\ notifs' = Announce(notifs, subs, payload.user_id, ver + 1)

\* a table that keeps the first update of a row and drops the later ones
UpdateTable_FirstWins(st, id, patch) ==
  IF st[id].updated_at # st[id].created_at THEN st
  ELSE [st EXCEPT ![id] = ApplyPatch(@, patch)]

\* the table after .update(patch).eq("id", id)
UpdateTable(st, id, patch) == [st EXCEPT ![id] = ApplyPatch(@, patch)]

\* a table that lets a status only move forward
TableUpdate_Forward(id, patch) ==
  /\ id \in 1..Len(store)
  /\ "status" \in DOMAIN patch =>
       ~(store[id].status \in {"completed", "cancelled"}
         /\ patch.status \in {"pending", "in-progress"})
  /\ store' = UpdateTable(store, id, patch)
  /\ ver' = ver + 1
  /\ notifs' = Announce(notifs, subs, store[id].user_id, ver + 1)

\* the table accepts an update of row id and announces the change
TableUpdate(id, patch) ==
  /\ id \in 1..Len(store)
  /\ store' = UpdateTable(store, id, patch)
  /\ ver' = ver + 1
  /\ notifs' = Announce(notifs, subs, store[id].user_id, ver + 1)

\* a CustomerDashboard in another browser submits for user u
OtherSubmit(u) ==
  /\ TableInsert(SubmitPayload(u, ScenarioForm))
  /\ last' = Quiet
  /\ UNCHANGED <<app, cust, staff, subs, fetches, writes>>

\* a CompanyDashboard in another browser sets a status, stamping the time
\* of its own clock
OtherUpdate(id, newStatus, now) ==
  /\ ver < MaxMutations
  /\ TableUpdate(id, StatusPatch(newStatus, now))
  /\ store[id].status # newStatus
  /\ last' = Quiet
  /\ UNCHANGED <<app, cust, staff, subs, fetches, writes>>

\* ------------------------------------------------------ fetchComplaints
Replace(bag, old, new) == (bag (-) SetToBag({old})) (+) SetToBag({new})

\* the server answers a select: the rows of the request's scope as the table
\* holds them now, or an error
ServerSelect(r, ok) ==
  /\ r \in BagToSet(fetches)
  /\ r.phase = "sent"
  /\ fetches' =
       Replace(fetches, r,
               IF ok
                 THEN [r EXCEPT !.phase = "ok", !.data = Query(store, r.scope),
                                !.dver = ver]
                 ELSE [r EXCEPT !.phase = "err"])
  /\ last' = Quiet
  /\ UNCHANGED <<app, store, ver, cust, staff, subs, notifs, writes>>

\* CustomerDashboard.fetchComplaints resumes after its await: the answer is
\* installed or the error logged, then setLoading(false); an instance that is
\* gone has no state to set
CustFetchReturn(r) ==
  /\ r \in BagToSet(fetches)
  /\ r.view = "cust"
  /\ r.phase \in {"ok", "err"}
  /\ fetches' = fetches (-) SetToBag({r})
  /\ LET alive == cust.active /\ cust.inst = r.inst
         done == IF r.phase = "ok" THEN SetComplaints(cust, r.data, r.dver)
                 ELSE OnFetchError(cust)
     IN cust' = IF alive THEN [done EXCEPT !.loading = FALSE] ELSE cust
  /\ last' = IF r.phase = "ok"
               THEN Step("fetch_ok", "cust", "none", r.trig)
               ELSE Step("fetch_err", "cust", "Error fetching complaints:", r.trig)
  /\ UNCHANGED <<app, store, ver, staff, subs, notifs, writes>>

\* CompanyDashboard.fetchComplaints resumes after its await; a new complaints
\* array makes the effect on [complaints, filter] due
StaffFetchReturn(r) ==
  /\ r \in BagToSet(fetches)
  /\ r.view = "staff"
  /\ r.phase \in {"ok", "err"}
  /\ fetches' = fetches (-) SetToBag({r})
  /\ LET alive == staff.active /\ staff.inst = r.inst
         done == IF r.phase = "ok"
                   THEN [SetComplaints(staff, r.data, r.dver) EXCEPT
                           !.derive = TRUE]
                 ELSE OnFetchError(staff)
     IN /\ alive => ~staff.derive
        /\ staff' = IF alive THEN [done EXCEPT !.loading = FALSE] ELSE staff
  /\ last' = IF r.phase = "ok"
               THEN Step("fetch_ok", "staff", "none", r.trig)
               ELSE Step("fetch_err", "staff", "Error fetching complaints:", r.trig)
  /\ UNCHANGED <<app, store, ver, cust, subs, notifs, writes>>

\* CompanyDashboard's effect on [complaints, filter]: filterComplaints() and
\* calculateStats(); it runs before the view handles anything else
StaffDerive ==
  /\ staff.active
  /\ staff.derive
  /\ staff' = [staff EXCEPT
                 !.filteredComplaints =
                    FilterComplaints(staff.complaints, staff.filter),
                 !.stats = CalculateStats(staff.complaints),
                 !.derive = FALSE]
  /\ last' = Quiet
  /\ UNCHANGED <<app, store, ver, cust, subs, notifs, fetches, writes>>

\* a change notification reaches the listener of a registered subscription:
\* () => { fetchComplaints(); } of the closure that subscribed
DeliverNotif(n) ==
  /\ n \in BagToSet(notifs)
  /\ \E s \in subs :
       /\ s.view = n.view
       /\ s.eff = n.eff
       /\ CanFetch(s.view)
       /\ fetches' = fetches (+) Listener(s.view, s.inst, s.scope, n.ver)
       /\ last' = [Step("notify", s.view, "none", n.ver) EXCEPT !.eff = s.eff]
  /\ notifs' = notifs (-) SetToBag({n})
  /\ UNCHANGED <<app, store, ver, cust, staff, subs, writes>>

\* ------------------------------------------------------- synchronisation
\* the dashboards' lifecycle and refreshes while other browsers write the
\* table (their clocks in step with the table's)
Next ==
  \/ \E u \in Users : CustMount(u)
  \/ \E u \in Users : CustSessionChange(u)
  \/ CustUnmount
  \/ StaffMount
  \/ StaffUnmount
  \/ \E s \in subs : SubscribeJoined(s)
  \/ \E u \in Users : OtherSubmit(u)
  \/ \E id \in 1..Len(store), st \in StatusInputs :
       OtherUpdate(id, st, ServerNow)
  \/ \E r \in BagToSet(fetches), ok \in BOOLEAN : ServerSelect(r, ok)
  \/ \E r \in BagToSet(fetches) : CustFetchReturn(r)
  \/ \E r \in BagToSet(fetches) : StaffFetchReturn(r)
  \/ StaffDerive
  \/ \E n \in BagToSet(notifs) : DeliverNotif(n)

Spec == Init /\ [][Next]_vars

\* the same while every select succeeds
NextSync ==
  \/ \E u \in Users : CustMount(u)
  \/ \E u \in Users : CustSessionChange(u)
  \/ CustUnmount
  \/ StaffMount
  \/ StaffUnmount
  \/ \E s \in subs : SubscribeJoined(s)
  \/ \E u \in Users : OtherSubmit(u)
  \/ \E id \in 1..Len(store), st \in StatusInputs :
       OtherUpdate(id, st, ServerNow)
  \/ \E r \in BagToSet(fetches) : ServerSelect(r, TRUE)
  \/ \E r \in BagToSet(fetches) : CustFetchReturn(r)
  \/ \E r \in BagToSet(fetches) : StaffFetchReturn(r)
  \/ StaffDerive
  \/ \E n \in BagToSet(notifs) : DeliverNotif(n)

SpecSync == Init /\ [][NextSync]_vars

\* ------------------------------------------------- the submission workflow
\* the dashboard below the loading screen is rendered
\* (if (loading && complaints.length === 0) return <loading>)
CustRendered == cust.active /\ ~(cust.loading /\ cust.complaints = <<>>)

\* a form without required attributes
FormValid_Off(form) == TRUE

\* the form's constraint validation: bicycle_model, issue_type, priority and
\* description are `required`, and a select holds one of its option values;
\* the browser calls onSubmit only when this holds
FormValid(form) ==
  /\ form.bicycle_model # ""
  /\ form.issue_type \in IssueTypes
  /\ form.priority \in Priorities
  /\ form.description # ""

\* the request a view sends to write the table: kind is "insert", "status"
\* or "notes", scope the session.user.id of the closure, id the row updated;
\* at is the recency the table has once it has accepted the write (0: not yet)
WriteRequest(kind, v, inst, scope, id, payload) ==
  [kind |-> kind, view |-> v, inst |-> inst, scope |-> scope, id |-> id,
   payload |-> payload, phase |-> "sent", at |-> 0]

\* a submission that overwrites the status of an existing row
SubmitRequest_Update(inst, uid, form) ==
  WriteRequest("status", "cust", inst, uid, 1, StatusPatch("cancelled", 0))

\* handleSubmit: supabase.from("complaints").insert([{ user_id, .., status }])
SubmitRequest(inst, uid, form) ==
  WriteRequest("insert", "cust", inst, uid, 0, SubmitPayload(uid, form))

WritesInFlight(v) ==
  BagCardinality([w \in {q \in BagToSet(writes) : q.view = v} |-> writes[w]])

\* onClick={() => setShowForm(!showForm)}
CustToggleForm ==
  /\ CustRendered
  /\ cust' = [cust EXCEPT !.showForm = ~cust.showForm]
  /\ last' = Quiet
  /\ UNCHANGED <<app, store, ver, staff, subs, notifs, fetches, writes>>

\* handleChange: setFormData({ ...formData, [name]: value })
CustHandleChange(name, value) ==
  /\ CustRendered
  /\ cust.showForm
  /\ cust.formData[name] # value
  /\ cust' = [cust EXCEPT !.formData[name] = value]
  /\ last' = Quiet
  /\ UNCHANGED <<app, store, ver, staff, subs, notifs, fetches, writes>>

\* the submit button is pressed while a required field is not filled in: the
\* browser reports the field and does not call onSubmit
CustSubmitRejected ==
  /\ CustRendered
  /\ cust.showForm
  /\ ~cust.loading
  /\ ~FormValid(cust.formData)
  /\ last' = Step("submit_invalid", "cust", "Please fill out this field.", 0)
  /\ UNCHANGED <<app, store, ver, cust, staff, subs, notifs, fetches, writes>>

\* handleSubmit up to its await: setLoading(true) and the insert is sent
\* (the button is disabled while loading)
CustHandleSubmit ==
  /\ CustRendered
  /\ cust.showForm
  /\ ~cust.loading
  /\ FormValid(cust.formData)
  /\ WritesInFlight("cust") < MaxInFlight
  /\ cust' = [cust EXCEPT !.loading = TRUE]
  /\ writes' = writes
                 (+) SetToBag({SubmitRequest(cust.inst, cust.uid, cust.formData)})
  /\ last' = Step("submit", "cust", "none", 0)
  /\ UNCHANGED <<app, store, ver, staff, subs, notifs, fetches>>

\* the server serves a write: the table accepts it, or answers with an error
\* and stays as it is
ServerWrite(w, ok) ==
  /\ w \in BagToSet(writes)
  /\ w.phase = "sent"
  /\ IF ok
       THEN /\ IF w.kind = "insert" THEN TableInsert(w.payload)
               ELSE ver < MaxMutations /\ TableUpdate(w.id, w.payload)
            /\ writes' = Replace(writes, w,
                                 [w EXCEPT !.phase = "ok", !.at = ver + 1])
            /\ last' = Step(w.kind, w.view, "none", ver + 1)
       ELSE /\ writes' = Replace(writes, w, [w EXCEPT !.phase = "err"])
            /\ last' = Quiet
            /\ UNCHANGED <<app, store, ver, notifs>>
  /\ UNCHANGED <<app, cust, staff, subs, fetches>>

\* a success path that keeps the draft
OnSubmitSuccess_Keep(view) == [view EXCEPT !.showForm = FALSE]

\* handleSubmit after a successful insert: setShowForm(false) and
\* setFormData({ bicycle_model: "", .., priority: "medium" })
OnSubmitSuccess(view) ==
  [view EXCEPT !.showForm = FALSE, !.formData = EmptyForm]

\* a catch block that resets the form
OnSubmitError_Reset(view) ==
  [view EXCEPT !.showForm = FALSE, !.formData = EmptyForm]

\* handleSubmit's catch block: console.error and alert, no state is set
OnSubmitError(view) == view

\* handleSubmit resumes after its await.  Success: the form is hidden and
\* reset, the user is told, fetchComplaints() is called; failure: the error
\* is logged and alerted; finally setLoading(false)
CustSubmitReturn(w) ==
  /\ w \in BagToSet(writes)
  /\ w.view = "cust"
  /\ w.phase \in {"ok", "err"}
  /\ writes' = writes (-) SetToBag({w})
  /\ LET alive == cust.active /\ cust.inst = w.inst
     IN IF w.phase = "ok"
          THEN /\ alive => CanFetch("cust")
               /\ cust' = IF alive
                            THEN [OnSubmitSuccess(cust) EXCEPT !.loading = FALSE]
                            ELSE cust
               /\ fetches' = IF alive
                               THEN fetches (+) SetToBag(
                                      {FetchRequest("cust", w.inst, w.scope, w.at)})
                               ELSE fetches
               /\ last' = Step("submit_ok", "cust", "none", w.at)
          ELSE /\ cust' = IF alive
                            THEN [OnSubmitError(cust) EXCEPT !.loading = FALSE]
                            ELSE cust
               /\ fetches' = fetches
               /\ last' = Step("submit_err", "cust",
                               "Error submitting request. Please try again.", 0)
  /\ UNCHANGED <<app, store, ver, staff, subs, notifs>>

FormFields ==
  [bicycle_model |-> ModelInputs, issue_type |-> IssueInputs,
   description |-> DescriptionInputs, priority |-> PriorityInputs]

NextSubmit ==
  \/ \E u \in Users : CustMount(u)
  \/ CustToggleForm
  \/ \E name \in DOMAIN FormFields : \E value \in FormFields[name] :
       CustHandleChange(name, value)
  \/ CustSubmitRejected
  \/ CustHandleSubmit
  \/ \E w \in BagToSet(writes), ok \in BOOLEAN : ServerWrite(w, ok)
  \/ \E w \in BagToSet(writes) : CustSubmitReturn(w)
  \/ \E r \in BagToSet(fetches), ok \in BOOLEAN : ServerSelect(r, ok)
  \/ \E r \in BagToSet(fetches) : CustFetchReturn(r)

\* one CustomerDashboard, from its mount on, and its submissions
SpecSubmit == Init /\ [][NextSubmit]_vars

\* ------------------------------------------------- the staff's operations
\* the dashboard below the loading screen is rendered and its effects have run
StaffRendered == staff.active /\ ~staff.loading /\ ~staff.derive

\* the rows of the table the view displays
StaffRows == {staff.filteredComplaints[i] : i \in 1..Len(staff.filteredComplaints)}

\* updateComplaintStatus: .update({ status, updated_at }).eq("id", complaintId)
StatusRequest(inst, complaintId, newStatus, now) ==
  WriteRequest("status", "staff", inst, AllScope, complaintId,
               StatusPatch(newStatus, now))

\* saveCompanyNotes: .update({ company_notes, updated_at }).eq("id", complaintId)
NotesRequest(inst, complaintId, notes, now) ==
  WriteRequest("notes", "staff", inst, AllScope, complaintId,
               NotesPatch(notes, now))

\* a change of the filter that the derive effect does not notice
StaffSetFilter_NoEffect(f) ==
  /\ StaffRendered
  /\ f # staff.filter
  /\ staff' = [staff EXCEPT !.filter = f]
  /\ last' = Quiet
  /\ UNCHANGED <<app, store, ver, cust, subs, notifs, fetches, writes>>

\* onClick={() => setFilter(f)}: a new filter makes the derive effect due
StaffSetFilter(f) ==
  /\ StaffRendered
  /\ f # staff.filter
  /\ staff' = [staff EXCEPT !.filter = f, !.derive = TRUE]
  /\ last' = Quiet
  /\ UNCHANGED <<app, store, ver, cust, subs, notifs, fetches, writes>>

\* the status select of a displayed row changes to another option:
\* updateComplaintStatus(complaint.id, e.target.value) up to its await
StaffUpdateComplaintStatus(c, newStatus, now) ==
  /\ StaffRendered
  /\ c \in StaffRows
  /\ newStatus # c.status
  /\ WritesInFlight("staff") < MaxInFlight
  /\ writes' = writes (+) SetToBag({StatusRequest(staff.inst, c.id, newStatus, now)})
  /\ last' = Step("set_status", "staff", "none", 0)
  /\ UNCHANGED <<app, store, ver, cust, staff, subs, notifs, fetches>>

\* updateComplaintStatus resumes after its await: fetchComplaints() on
\* success, the error logged and alerted otherwise
StaffUpdateReturn(w) ==
  /\ w \in BagToSet(writes)
  /\ w.view = "staff"
  /\ w.kind = "status"
  /\ w.phase \in {"ok", "err"}
  /\ writes' = writes (-) SetToBag({w})
  /\ LET alive == staff.active /\ staff.inst = w.inst
     IN IF w.phase = "ok"
          THEN /\ alive => CanFetch("staff")
               /\ fetches' = IF alive
                               THEN fetches (+) SetToBag(
                                      {FetchRequest("staff", w.inst, AllScope, w.at)})
                               ELSE fetches
               /\ last' = Step("status_ok", "staff", "none", w.at)
          ELSE /\ fetches' = fetches
               /\ last' = Step("status_err", "staff",
                               "Error updating status. Please try again.", 0)
  /\ UNCHANGED <<app, store, ver, cust, staff, subs, notifs>>

\* openComplaintModal(complaint) of a displayed row
StaffOpenModal(c) ==
  /\ StaffRendered
  /\ c \in StaffRows
  /\ staff' = [staff EXCEPT !.selectedComplaint = c,
                            !.companyNotes = c.company_notes]
  /\ last' = Quiet
  /\ UNCHANGED <<app, store, ver, cust, subs, notifs, fetches, writes>>

\* onClick={() => setSelectedComplaint(null)} of the overlay or the close button
StaffCloseModal ==
  /\ StaffRendered
  /\ staff.selectedComplaint # Null
  /\ staff' = [staff EXCEPT !.selectedComplaint = Null]
  /\ last' = Quiet
  /\ UNCHANGED <<app, store, ver, cust, subs, notifs, fetches, writes>>

\* onChange={(e) => setCompanyNotes(e.target.value)} of the modal's textarea
StaffSetCompanyNotes(text) ==
  /\ StaffRendered
  /\ staff.selectedComplaint # Null
  /\ text # staff.companyNotes
  /\ staff' = [staff EXCEPT !.companyNotes = text]
  /\ last' = Quiet
  /\ UNCHANGED <<app, store, ver, cust, subs, notifs, fetches, writes>>

\* saveCompanyNotes(selectedComplaint.id) up to its await
StaffSaveCompanyNotes(now) ==
  /\ StaffRendered
  /\ staff.selectedComplaint # Null
  /\ WritesInFlight("staff") < MaxInFlight
  /\ writes' = writes
       (+) SetToBag({NotesRequest(staff.inst, staff.selectedComplaint.id,
                                  staff.companyNotes, now)})
  /\ last' = Step("set_notes", "staff", "none", 0)
  /\ UNCHANGED <<app, store, ver, cust, staff, subs, notifs, fetches>>

\* a catch block that closes the modal and drops the text
OnNotesError_Close(view) ==
  [view EXCEPT !.selectedComplaint = Null, !.companyNotes = ""]

\* the catch blocks of updateComplaintStatus and saveCompanyNotes:
\* console.error and alert, no state is set
OnNotesError(view) == view

\* saveCompanyNotes resumes after its await.  Success: the user is told, the
\* modal closes, the notes text is cleared, fetchComplaints() is called;
\* failure: the error is logged and alerted
StaffNotesReturn(w) ==
  /\ w \in BagToSet(writes)
  /\ w.view = "staff"
  /\ w.kind = "notes"
  /\ w.phase \in {"ok", "err"}
  /\ writes' = writes (-) SetToBag({w})
  /\ LET alive == staff.active /\ staff.inst = w.inst
     IN IF w.phase = "ok"
          THEN /\ alive => CanFetch("staff") /\ ~staff.derive
               /\ staff' = IF alive
                             THEN [staff EXCEPT !.selectedComplaint = Null,
                                                !.companyNotes = ""]
                             ELSE staff
               /\ fetches' = IF alive
                               THEN fetches (+) SetToBag(
                                      {FetchRequest("staff", w.inst, AllScope, w.at)})
                               ELSE fetches
               /\ last' = Step("notes_ok", "staff", "none", w.at)
          ELSE /\ staff' = IF alive THEN OnNotesError(staff) ELSE staff
               /\ fetches' = fetches
               /\ last' = Step("notes_err", "staff",
                               "Error saving notes. Please try again.", 0)
  /\ UNCHANGED <<app, store, ver, cust, subs, notifs>>

NextStaff ==
  \/ StaffMount
  \/ StaffDerive
  \/ \E f \in Filters : StaffSetFilter(f)
  \/ \E c \in StaffRows, st \in StatusInputs, t \in ClientClock :
       StaffUpdateComplaintStatus(c, st, t)
  \/ \E w \in BagToSet(writes) : StaffUpdateReturn(w)
  \/ \E c \in StaffRows : StaffOpenModal(c)
  \/ StaffCloseModal
  \/ \E text \in NotesInputs : StaffSetCompanyNotes(text)
  \/ \E t \in ClientClock : StaffSaveCompanyNotes(t)
  \/ \E w \in BagToSet(writes) : StaffNotesReturn(w)
  \/ \E w \in BagToSet(writes), ok \in BOOLEAN : ServerWrite(w, ok)
  \/ \E r \in BagToSet(fetches), ok \in BOOLEAN : ServerSelect(r, ok)
  \/ \E r \in BagToSet(fetches) : StaffFetchReturn(r)

\* one CompanyDashboard, from its mount on, and its updates
SpecStaff == Init /\ [][NextStaff]_vars

\* new Date() of a browser whose clock stands at the time of the table's
\* first write
DeskNow == 1

NextDesk ==
  \/ StaffMount
  \/ StaffDerive
  \/ \E c \in StaffRows, st \in StatusInputs :
       StaffUpdateComplaintStatus(c, st, DeskNow)
  \/ \E w \in BagToSet(writes) : StaffUpdateReturn(w)
  \/ \E c \in StaffRows : StaffOpenModal(c)
  \/ \E text \in NotesInputs : StaffSetCompanyNotes(text)
  \/ StaffSaveCompanyNotes(DeskNow)
  \/ \E w \in BagToSet(writes) : StaffNotesReturn(w)
  \/ \E w \in BagToSet(writes), ok \in BOOLEAN : ServerWrite(w, ok)
  \/ \E r \in BagToSet(fetches) : ServerSelect(r, TRUE)
  \/ \E r \in BagToSet(fetches) : StaffFetchReturn(r)

\* one CompanyDashboard whose selects succeed, and its updates, served or
\* refused
SpecDesk == Init /\ [][NextDesk]_vars

\* --------------------------------------------- staff updates, concurrently
\* the table the staff work on: a complaint of each customer, the first in
\* any status earlier updates have given it
StaffTables ==
  {<<[InsertRow(<<>>, SubmitPayload("u1", ScenarioForm), 0) EXCEPT !.status = st],
     [InsertRow(<<>>, SubmitPayload("u2", ScenarioForm), 0) EXCEPT !.id = 2]>> :
     st \in Statuses}

InitUpdate ==
  /\ app = AppInitial(NoUser)
  /\ store \in StaffTables
  /\ ver = 0
  /\ cust = CustInitial(0, 0)
  /\ staff = StaffInitial(0, 0)
  /\ subs = {}
  /\ notifs = EmptyBag
  /\ fetches = EmptyBag
  /\ writes = EmptyBag
  /\ last = Quiet

\* the notes the staff of the other browsers save
OtherNotesInputs == {"checked", "part ordered"}

\* a CompanyDashboard in another browser (its view is not followed): the
\* update its updateComplaintStatus or saveCompanyNotes has sent is served
OtherStaffUpdate(kind, id, patch) ==
  /\ ver < MaxUpdates
  /\ TableUpdate(id, patch)
  /\ last' = [Step(kind, "other", "none", ver + 1) EXCEPT
                !.row = id, !.was = store[id].status]
  /\ UNCHANGED <<app, cust, staff, subs, fetches, writes>>

NextUpdate ==
  \/ \E id \in 1..Len(store), st \in Statuses, t \in ClientClock :
       OtherStaffUpdate("status", id, StatusPatch(st, t))
  \/ \E id \in 1..Len(store), text \in OtherNotesInputs, t \in ClientClock :
       OtherStaffUpdate("notes", id, NotesPatch(text, t))

\* the updates the staff of several browsers send at the same time, served
\* by the table one after the other in any order
SpecUpdate == InitUpdate /\ [][NextUpdate]_vars

\* ------------------------------------------- the staff view's projections
\* values of the filter state: the buttons' and one no button sets
FilterInputs == Filters \cup {"archived"}

\* the answer to the staff view's select of a table whose rows, newest
\* first, have these statuses
ComplaintsOf(statuses) ==
  [i \in 1..Len(statuses) |->
     [InsertRow(<<>>, SubmitPayload("u1", ScenarioForm), Len(statuses) - i)
        EXCEPT !.id = Len(statuses) - i + 1, !.status = statuses[i]]]

RecordSets ==
  UNION {{ComplaintsOf(q) : q \in [1..n -> Statuses]} : n \in 0..MaxComplaints}

\* a CompanyDashboard whose fetch has just installed a list (the effect on
\* [complaints, filter] is due), with the filter state at any value
InitView ==
  /\ app = AppInitial(NoUser)
  /\ store = <<>>
  /\ ver = 0
  /\ cust = CustInitial(0, 0)
  /\ \E list \in RecordSets, f \in FilterInputs :
       staff = [StaffInitial(1, 1) EXCEPT
                  !.active = TRUE, !.loading = FALSE, !.complaints = list,
                  !.filter = f, !.derive = TRUE]
  /\ subs = {}
  /\ notifs = EmptyBag
  /\ fetches = EmptyBag
  /\ writes = EmptyBag
  /\ last = Quiet

NextView ==
  \/ StaffDerive
  \/ \E f \in Filters : StaffSetFilter(f)

\* filterComplaints and calculateStats over every list and filter
SpecView == InitView /\ [][NextView]_vars

\* the staff's dashboard under fetch completions and filter changes, while
\* other browsers submit complaints and set statuses
NextDerive ==
  \/ StaffMount
  \/ \E s \in subs : SubscribeJoined(s)
  \/ \E u \in Users : OtherSubmit(u)
  \/ \E id \in 1..Len(store), st \in Statuses : OtherUpdate(id, st, ServerNow)
  \/ \E n \in BagToSet(notifs) : DeliverNotif(n)
  \/ \E r \in BagToSet(fetches), ok \in BOOLEAN : ServerSelect(r, ok)
  \/ \E r \in BagToSet(fetches) : StaffFetchReturn(r)
  \/ StaffDerive
  \/ \E f \in Filters : StaffSetFilter(f)

SpecDerive == Init /\ [][NextDerive]_vars

\* ------------------------------------------------------- App: role routing
\* what App renders: the loading screen, <Login />, or the dashboard
\* userRole selects (userRole === "company" ? CompanyDashboard : CustomerDashboard)
AppRendered ==
  IF app.loading THEN "loading"
  ELSE IF app.session = NoUser THEN "login"
  ELSE IF app.userRole = "company" THEN "company"
  ELSE "customer"

\* setUserRole(role) in fetchUserRole(uid)
SetUserRole(a, uid, role) == [a EXCEPT !.userRole = role]

\* the callback of getSession() and of onAuthStateChange with session `u`:
\* setSession(session); with a session fetchUserRole(session.user.id) is
\* sent, without one setLoading(false) (the auth callback also sets the
\* role to null)
OnSession(a, u, clearRole) ==
  IF u # NoUser
    THEN [a EXCEPT !.session = u,
                   !.roleFetches = a.roleFetches (+) SetToBag({u})]
    ELSE [a EXCEPT !.session = NoUser, !.loading = FALSE,
                   !.userRole = IF clearRole THEN "null" ELSE a.userRole]

CanFetchRole == BagCardinality(app.roleFetches) < MaxInFlight

AppStill == UNCHANGED <<store, ver, cust, staff, subs, notifs, fetches, writes>>

\* supabase.auth.getSession().then(..) of the mount effect
AppGetSession ==
  /\ ~app.started
  /\ CanFetchRole
  /\ app' = [OnSession(app, app.auth, FALSE) EXCEPT !.started = TRUE]
  /\ last' = Step("get_session", "app", "none", 0)
  /\ AppStill

\* the auth client calls the onAuthStateChange listener with the session it
\* holds (initial session, token refreshed)
AppAuthEvent ==
  /\ CanFetchRole
  /\ app' = OnSession(app, app.auth, TRUE)
  /\ last' = Step("auth_event", "app", "none", 0)
  /\ AppStill

\* Login.handleLogin for account u: signInWithPassword succeeds and the auth
\* client calls the listener with the new session
LoginSignIn(u) ==
  /\ AppRendered = "login"
  /\ CanFetchRole
  /\ app' = OnSession([app EXCEPT !.auth = u], u, TRUE)
  /\ last' = Step("sign_in", "app", "none", 0)
  /\ AppStill

\* handleLogout of the header's button: signOut() (the listener is called
\* without a session), then setSession(null) and setUserRole(null)
AppHandleLogout ==
  /\ AppRendered \in {"company", "customer"}
  /\ app' = [OnSession([app EXCEPT !.auth = NoUser], NoUser, TRUE) EXCEPT
                !.session = NoUser, !.userRole = "null"]
  /\ last' = Step("logout", "app", "none", 0)
  /\ AppStill

\* fetchUserRole(uid) resumes after its await: the role of the users table,
\* or customer when the select failed; finally setLoading(false)
AppRoleReturn(uid, ok) ==
  /\ uid \in BagToSet(app.roleFetches)
  /\ app' = [SetUserRole(app, uid, IF ok THEN RoleOf(uid) ELSE "customer")
               EXCEPT !.loading = FALSE,
                      !.roleFetches = app.roleFetches (-) SetToBag({uid})]
  /\ last' = IF ok THEN Step("role_ok", "app", "none", 0)
              ELSE Step("role_err", "app", "Error fetching user role:", 0)
  /\ AppStill

\* the browser opens the portal, with or without a session kept from an
\* earlier visit
InitApp ==
  /\ app \in {AppInitial(u) : u \in Accounts \cup {NoUser}}
  /\ store = <<>>
  /\ ver = 0
  /\ cust = CustInitial(0, 0)
  /\ staff = StaffInitial(0, 0)
  /\ subs = {}
  /\ notifs = EmptyBag
  /\ fetches = EmptyBag
  /\ writes = EmptyBag
  /\ last = Quiet

NextApp ==
  \/ AppGetSession
  \/ AppAuthEvent
  \/ \E u \in Accounts : LoginSignIn(u)
  \/ AppHandleLogout
  \/ \E uid \in Accounts, ok \in BOOLEAN : AppRoleReturn(uid, ok)

SpecApp == InitApp /\ [][NextApp]_vars

\* ------------------------------------------------------------ properties
Views == {"cust", "staff"}

View(v) == IF v = "cust" THEN cust ELSE staff

\* C1: every complaint in the list a CustomerDashboard renders is owned by
\* the session's user, in every state: while fetches are in flight and after
\* session.user.id has changed
C1_OwnRowsOnly ==
  cust.active =>
    \A i \in 1..Len(cust.complaints) : cust.complaints[i].user_id = cust.uid

\* C2: refreshes are serialized per scope: a view never has more than one
\* fetchComplaints of one scope in flight
C2_OneFetchInFlight ==
  \A v \in Views : \A scope \in Users \cup {AllScope} :
    BagCardinality([r \in {q \in BagToSet(fetches) :
                              q.view = v /\ q.scope = scope} |-> fetches[r]]) <= 1

\* C3: for one viewer (a view whose session user has not changed since it
\* was mounted), a completed refresh never replaces the rendered list by the
\* rows of an older state of the table than the one rendered
C3_NoOlderSnapshot ==
  [][\A v \in Views :
       (View(v).active /\ View(v)'.active /\ View(v)'.inst = View(v).inst
        /\ View(v)'.eff = View(v)'.inst
        /\ View(v)'.complaints # View(v).complaints)
         => View(v)'.shownVer >= View(v).shownVer]_vars

\* C4: when a refresh started by a change notification completes
\* successfully, the list it has just installed was read from the table no
\* earlier than the change that was notified, and it is the table's rows of
\* one scope
C4_AtLeastAsRecent ==
  \A v \in Views :
    /\ (last.op = "fetch_ok" /\ last.view = v /\ last.trig > 0)
         => View(v).shownVer >= last.trig
    /\ (View(v).active /\ last.op = "fetch_ok" /\ last.view = v
        /\ View(v).shownVer = ver)
         => \E scope \in Users \cup {AllScope} :
              View(v).complaints = Query(store, scope)

C4_Witness ==
  /\ last.op = "fetch_ok"
  /\ last.trig > 0
  /\ cust.active
  /\ last.view = "cust"
  /\ cust.shownVer = last.trig
  /\ Len(cust.complaints) > 0

\* C5: a notification of another viewer's change that reaches an idle staff
\* view makes it send exactly one fetch; when that fetch has completed the
\* view holds rows read no earlier than the change, and once the derive
\* effect has run the displayed list is those rows under the filter
C5_OneRefetchShowsChange ==
  [][/\ (last'.op = "notify" /\ last'.view = "staff" /\ InFlight("staff") = 0)
          => /\ InFlight("staff")' = 1
             /\ \E r \in BagToSet(fetches') :
                  r.view = "staff" /\ r.trig = last'.trig /\ r.phase = "sent"
     /\ (last'.op = "fetch_ok" /\ last'.view = "staff" /\ last'.trig > 0)
          => staff'.shownVer >= last'.trig /\ staff'.derive
     /\ (staff.active /\ staff.derive /\ ~staff'.derive /\ staff'.active)
          => staff'.filteredComplaints =
               FilterComplaints(staff.complaints, staff.filter)]_vars

C5_Witness ==
  /\ last.op = "fetch_ok"
  /\ last.view = "staff"
  /\ last.trig > 0
  /\ staff.active
  /\ staff.shownVer = last.trig
  /\ InFlight("staff") = 0
  /\ \E i \in 1..Len(staff.complaints) :
       staff.complaints[i].created_at = last.trig

\* C6: a fetch that fails leaves the rendered list of the customer view and
\* of the staff view as it was, and the error is logged
C6_FailureKeepsList ==
  [][last'.op = "fetch_err"
       => /\ cust'.complaints = cust.complaints
          /\ staff'.complaints = staff.complaints
          /\ staff'.filteredComplaints = staff.filteredComplaints
          /\ last'.err = "Error fetching complaints:"]_vars

C6_Witness ==
  /\ last.op = "fetch_err"
  /\ last.view = "staff"
  /\ staff.active
  /\ Len(staff.complaints) > 0

\* C7: in every state each registered subscription, each undelivered
\* notification and each listener call belongs to the current effect run of a
\* view that is active: deactivation releases the subscription in its own step
C7_NoOrphanListener ==
  /\ \A s \in subs :
       View(s.view).active /\ View(s.view).eff = s.eff
       /\ View(s.view).inst = s.inst
  /\ \A n \in BagToSet(notifs) :
       View(n.view).active /\ View(n.view).eff = n.eff
  /\ last.op = "notify" =>
       View(last.view).active /\ View(last.view).eff = last.eff
  /\ \A v \in Views : Cardinality({s \in subs : s.view = v}) <= 1

C7_Witness ==
  /\ cust.active
  /\ cust.inst = 1
  /\ cust.eff = 2
  /\ \E s \in subs : s.view = "cust" /\ s.eff = 2 /\ s.scope = cust.uid
  /\ last.op = "notify"

\* C8: a customer view only creates: every write it sends is an insert of a
\* row with status pending, and no step of it changes the status or the notes
\* of a row the table already holds, or removes a row
C8_CustomerOnlyCreates ==
  [][/\ \A w \in BagToSet(writes') :
          w.view = "cust" => w.kind = "insert" /\ w.payload.status = "pending"
     /\ last'.view # "staff" =>
          /\ Len(store') >= Len(store)
          /\ \A i \in 1..Len(store) :
               /\ store'[i].status = store[i].status
               /\ store'[i].company_notes = store[i].company_notes
          /\ Len(store') > Len(store) =>
               store'[Len(store')].status = "pending"]_vars

C8_Witness ==
  /\ last.op = "insert"
  /\ last.view = "cust"
  /\ Len(store) = 2
  /\ store[1].status = "pending"
  /\ store[2].status = "pending"

\* C9: every insert handleSubmit sends carries status pending and the
\* session.user.id of the session that submits, and every row the table
\* gains is the row of such an insert, whatever the form holds
C9_CreatedPendingOwned ==
  [][/\ \A w \in BagToSet(writes') \ BagToSet(writes) :
          (w.kind = "insert" /\ w.phase = "sent")
            => /\ cust.active
               /\ w.payload.user_id = cust.uid
               /\ w.payload.status = "pending"
     /\ Len(store') > Len(store) =>
          \E w \in BagToSet(writes) :
            /\ w.kind = "insert"
            /\ w.phase = "sent"
            /\ store'[Len(store')].user_id = w.scope
            /\ store'[Len(store')].description = w.payload.description
            /\ store'[Len(store')].status = "pending"]_vars

C9_Witness ==
  /\ last.op = "insert"
  /\ store # <<>>
  /\ store[Len(store)].created_at > 0
  /\ store[Len(store)].user_id = "u2"
  /\ store[Len(store)].priority = "medium"
  /\ store[Len(store)].status = "pending"

\* C10: a submission with an empty description (or model, or without a
\* recognized issue type or priority) is refused with a validation message and
\* writes nothing: no insert sent and no row of the table has an empty
\* description or model or an unrecognized issue type or priority
C10_NoInvalidRow ==
  [][/\ \A w \in BagToSet(writes') :
          w.kind = "insert" =>
            /\ w.payload.description # ""
            /\ w.payload.bicycle_model # ""
            /\ w.payload.issue_type \in IssueTypes
            /\ w.payload.priority \in Priorities
     /\ \A i \in 1..Len(store') :
          /\ store'[i].description # ""
          /\ store'[i].bicycle_model # ""
          /\ store'[i].issue_type \in IssueTypes
          /\ store'[i].priority \in Priorities
     /\ last'.op = "submit_invalid"
          => /\ store' = store
             /\ writes' = writes
             /\ last'.err # "none"]_vars

C10_Witness ==
  /\ last.op = "submit_invalid"
  /\ cust.formData.description = ""
  /\ cust.formData.bicycle_model = "EV-Sport 2024"
  /\ cust.formData.issue_type = "battery"
  /\ writes = EmptyBag
  /\ ver = 0

\* C11: when the insert of a submission fails, the error is alerted, the
\* draft (model, issue type, description, priority) and the form's visibility
\* are as they were, the submit button is enabled again, the table gains no
\* row and the rendered list is unchanged
C11_FailureKeepsDraft ==
  [][/\ last'.op = "submit_err"
          => /\ cust'.formData = cust.formData
             /\ cust'.showForm = cust.showForm
             /\ cust'.complaints = cust.complaints
             /\ ~cust'.loading
             /\ store' = store
             /\ fetches' = fetches
             /\ last'.err = "Error submitting request. Please try again."
     /\ (\E w \in BagToSet(writes') \ BagToSet(writes) : w.phase = "err")
          => store' = store /\ ver' = ver /\ cust' = cust]_vars

C11_Witness ==
  /\ last.op = "submit_err"
  /\ cust.active
  /\ cust.showForm
  /\ cust.formData = ScenarioForm
  /\ FormValid(cust.formData)
  /\ ~cust.loading
  /\ ver = 0

C13_UpdatedNotBeforeCreated ==
  \A i \in 1..Len(store) : store[i].updated_at >= store[i].created_at

RECURSIVE SumOver(_, _)
SumOver(rec, fields) ==
  IF fields = {} THEN 0
  ELSE LET f == CHOOSE g \in fields : TRUE
       IN rec[f] + SumOver(rec, fields \ {f})

\* C14: the per-status counts the staff view holds sum to its total, for
\* every list (also one with cancelled complaints) and every filter
C14_CountsSumToTotal ==
  StaffRendered =>
    /\ staff.stats.total = Len(staff.complaints)
    /\ SumOver(staff.stats, DOMAIN staff.stats \ {"total"}) = staff.stats.total

\* the complaints of a list that have status st
CountOf(list, st) == Cardinality({i \in 1..Len(list) : list[i].status = st})

\* C15: a change of the filter leaves the list and the counts as they are,
\* and whenever the view has derived, its counts are those of the whole list
\* whatever the filter, while the displayed list has the filter's length
C15_FilterKeepsCounts ==
  [][/\ staff'.filter # staff.filter
          => /\ staff'.stats = staff.stats
             /\ staff'.complaints = staff.complaints
             /\ store' = store
     /\ (staff'.active /\ ~staff'.loading /\ ~staff'.derive)
          => /\ staff'.stats.total = Len(staff'.complaints)
             /\ staff'.stats.pending = CountOf(staff'.complaints, "pending")
             /\ staff'.stats.inProgress
                  = CountOf(staff'.complaints, "in-progress")
             /\ staff'.stats.completed
                  = CountOf(staff'.complaints, "completed")
             /\ Len(staff'.filteredComplaints) =
                  IF staff'.filter \in {"pending", "in-progress", "completed"}
                    THEN CountOf(staff'.complaints, staff'.filter)
                    ELSE Len(staff'.complaints)]_vars

\* the filter has just been changed from all to in-progress
C15_Witness ==
  /\ staff.active
  /\ staff.derive
  /\ staff.filter = "in-progress"
  /\ Len(staff.complaints) = 5
  /\ CountOf(staff.complaints, "in-progress") = 2
  /\ Len(staff.filteredComplaints) = 5
  /\ staff.stats.total = 5
  /\ staff.stats.inProgress = 2

\* the index in list of the k-th complaint that has status st
NthWith(list, st, k) ==
  CHOOSE i \in 1..Len(list) :
    /\ list[i].status = st
    /\ Cardinality({j \in 1..i : list[j].status = st}) = k

\* C16: once the view has derived, the displayed list is, for the filters
\* pending, in-progress and completed, exactly the complaints of that status
\* in the order of the list, and for all and any other value the whole list
C16_FilterSelects ==
  (staff.active /\ ~staff.derive) =>
    LET list == staff.complaints
        out == staff.filteredComplaints
    IN IF staff.filter \in {"pending", "in-progress", "completed"}
         THEN /\ Len(out) = CountOf(list, staff.filter)
              /\ \A k \in 1..Len(out) :
                   out[k] = list[NthWith(list, staff.filter, k)]
         ELSE out = list

C16_Witness ==
  /\ staff.active
  /\ ~staff.derive
  /\ staff.filter = "archived"
  /\ staff.filteredComplaints = staff.complaints
  /\ Len(staff.complaints) = 3
  /\ CountOf(staff.complaints, "cancelled") = 1
  /\ CountOf(staff.complaints, "pending") = 1

\* the updates the staff's handlers can send for a row, by the time stamped
StatusPatches == {StatusPatch(st, t) : st \in Statuses, t \in ClientClock}

NotesPatches == {NotesPatch(text, t) : text \in OtherNotesInputs, t \in ClientClock}

\* C17: an update of the status to the value the row already has is served
\* like any other: it is never refused, the row keeps its status, its
\* updated_at becomes the time the client stamped and no error is reported;
\* the same update served twice leaves the status of serving it once
C17_SameStatusAccepted ==
  [][/\ \A id \in 1..Len(store), t \in ClientClock :
          /\ ver < MaxUpdates =>
               ENABLED OtherStaffUpdate("status", id,
                                        StatusPatch(store[id].status, t))
          /\ \A st \in Statuses :
               LET once == UpdateTable(store, id, StatusPatch(st, t))
               IN UpdateTable(once, id, StatusPatch(st, t))[id].status
                    = once[id].status
     /\ (last'.op = "status" /\ store'[last'.row].status = last'.was)
          => /\ store'[last'.row].status = store[last'.row].status
             /\ store'[last'.row].updated_at \in ClientClock
             /\ ver' = ver + 1
             /\ last'.err = "none"]_vars

C17_Witness ==
  /\ last.op = "status"
  /\ last.row = 2
  /\ last.was = "pending"
  /\ store[2].status = "pending"
  /\ store[2].updated_at = 1
  /\ ver = 1

\* C18: from every status a row has, an update to each of the four statuses
\* is served and gives the row that status, backward moves included; no
\* served status update reports an error
C18_AnyTransition ==
  [][/\ \A id \in 1..Len(store), p \in StatusPatches :
          /\ ver < MaxUpdates => ENABLED OtherStaffUpdate("status", id, p)
          /\ UpdateTable(store, id, p)[id].status = p.status
     /\ last'.op = "status"
          => /\ store'[last'.row].status \in Statuses
             /\ \E p \in StatusPatches :
                  store' = UpdateTable(store, last'.row, p)
             /\ last'.err = "none"]_vars

C18_Witness ==
  /\ last.op = "status"
  /\ last.was = "completed"
  /\ store[last.row].status = "pending"
  /\ ver = 2

\* C19: a served status or notes update leaves the number of rows and each
\* row's id, user_id, created_at, bicycle_model, issue_type, priority and
\* description as they were at creation; a status update leaves the notes, a
\* notes update the status, and both leave every other row untouched
C19_UpdateFrame ==
  [][/\ Len(store') = Len(store)
     /\ \A i \in 1..Len(store) :
          /\ store'[i].id = i
          /\ store'[i].user_id = store[i].user_id
          /\ store'[i].created_at = store[i].created_at
          /\ store'[i].bicycle_model = store[i].bicycle_model
          /\ store'[i].issue_type = store[i].issue_type
          /\ store'[i].priority = store[i].priority
          /\ store'[i].description = store[i].description
          /\ last'.op = "status" => store'[i].company_notes = store[i].company_notes
          /\ last'.op = "notes" => store'[i].status = store[i].status
     /\ store'[1].user_id = "u1" /\ store'[2].user_id = "u2"
     /\ store'[1].created_at = 0 /\ store'[2].created_at = 0]_vars

C19_Witness ==
  /\ last.op = "status"
  /\ last.row = 1
  /\ last.was # store[1].status
  /\ store[1].company_notes = "checked"
  /\ store[1].user_id = "u1"
  /\ store[1].created_at = 0
  /\ store[1].description = "Won't hold charge"
  /\ ver = 2

\* two updates in flight at the same time
ConcurrentPatches ==
  {StatusPatch(st, t) : st \in StatusInputs, t \in ClientClock}
    \cup {NotesPatch("checked", t) : t \in ClientClock}

\* C20: the updates two staff browsers have sent are both served, in either
\* order, none refused.  Of distinct rows: the table is the same in both
\* orders and each row holds its own update; of the same row: each column
\* holds the value of the update served last, as does the row just written
C20_LastWriterWins ==
  /\ \A a, b \in 1..Len(store) :
       \A p, q \in ConcurrentPatches :
         LET pq == UpdateTable(UpdateTable(store, a, p), b, q)
         IN IF a # b
              THEN /\ pq = UpdateTable(UpdateTable(store, b, q), a, p)
                   /\ ApplyPatch(pq[a], p) = pq[a]
                   /\ ApplyPatch(pq[b], q) = pq[b]
              ELSE ApplyPatch(pq[a], q) = pq[a]
  /\ ver < MaxUpdates =>
       \A a \in 1..Len(store) :
         /\ \A p \in StatusPatches : ENABLED OtherStaffUpdate("status", a, p)
         /\ \A p \in NotesPatches : ENABLED OtherStaffUpdate("notes", a, p)
  /\ last.op \in {"status", "notes"}
       => /\ last.err = "none"
          /\ store[last.row].updated_at \in {-1, ver}
          /\ last.op = "notes" => store[last.row].company_notes \in OtherNotesInputs

\* two status updates of row 2 were served; the row holds the last one's
C20_Witness ==
  /\ last.op = "status"
  /\ last.row = 2
  /\ last.was = "completed"
  /\ store[2].status = "cancelled"
  /\ store[2].company_notes = ""
  /\ store[2].updated_at = 2
  /\ store[1].updated_at = 0
  /\ ver = 2

\* C21: when an update of the staff view is refused, the table is as it was;
\* when the refusal reaches the handler, the view (its list, the open modal,
\* the notes text) is as it was, no fetch is sent and the error is alerted;
\* when the acceptance reaches the handler, one fetch is sent
C21_UpdateFailureKeepsView ==
  [][/\ (\E w \in BagToSet(writes') \ BagToSet(writes) : w.phase = "err")
          => store' = store /\ ver' = ver /\ staff' = staff
     /\ last'.op \in {"status_err", "notes_err"}
          => /\ staff' = staff
             /\ store' = store
             /\ fetches' = fetches
             /\ last'.err = IF last'.op = "status_err"
                               THEN "Error updating status. Please try again."
                               ELSE "Error saving notes. Please try again."
     /\ last'.op \in {"status_ok", "notes_ok"}
          => /\ InFlight("staff")' = InFlight("staff") + 1
             /\ \E r \in BagToSet(fetches') :
                  r.view = "staff" /\ r.phase = "sent" /\ r.trig = last'.trig
             /\ staff'.complaints = staff.complaints]_vars

C21_Witness ==
  /\ last.op = "notes_err"
  /\ staff.active
  /\ staff.selectedComplaint # Null
  /\ staff.companyNotes = "checked"
  /\ Len(staff.complaints) = 1
  /\ store[1].company_notes = ""
  /\ InFlight("staff") = 0

\* the scope of a view: the session's user for the customer view, every
\* complaint for the staff view
ScopeOf(v, view) == IF v = "cust" THEN view.uid ELSE AllScope

\* C22: the step that activates a view (its mount, or the change of the
\* customer view's session.user.id) leaves the view with exactly one
\* subscription, of the new effect run, filtered to the view's scope and not
\* yet joined, and sends exactly one fetch of that scope; no step leaves a
\* view with more than one subscription
C22_OneSubscriptionOneFetch ==
  [][\A v \in Views :
       /\ Cardinality({s \in subs' : s.view = v}) <= 1
       /\ View(v)'.eff = View(v).eff + 1
            => /\ View(v)'.active
               /\ {s \in subs' : s.view = v}
                    = {[view |-> v, inst |-> View(v)'.inst,
                        eff |-> View(v)'.eff,
                        scope |-> ScopeOf(v, View(v)'), state |-> "joining"]}
               /\ InFlight(v)' = InFlight(v) + 1
               /\ \E r \in BagToSet(fetches') :
                    /\ r.view = v /\ r.inst = View(v)'.inst /\ r.phase = "sent"
                    /\ r.scope = ScopeOf(v, View(v)') /\ r.trig = 0
                    /\ fetches' = fetches (+) SetToBag({r})]_vars

\* the customer view has just been re-activated for another user
C22_Witness ==
  /\ cust.active
  /\ cust.inst = 1
  /\ cust.eff = 2
  /\ last = Quiet
  /\ subs = {Subscription("cust", 1, 2, cust.uid)}
  /\ \E r \in BagToSet(fetches) :
       r.view = "cust" /\ r.scope = cust.uid /\ r.phase = "sent"
  /\ \E r \in BagToSet(fetches) : r.view = "cust" /\ r.scope # cust.uid

\* nothing is left to happen for view v: it is active, its subscription has
\* joined, no notification is on its way to it, none of its fetches is in
\* flight and its effects have run
Settled(v) ==
  /\ View(v).active
  /\ \A s \in subs : s.view = v => s.state = "joined"
  /\ \A n \in BagToSet(notifs) : n.view # v
  /\ InFlight(v) = 0
  /\ v = "staff" => ~staff.derive

\* C23: when the writes have stopped and every fetch of a view has completed
\* successfully, the view (its session user unchanged since its mount)
\* renders the table's rows of its scope
C23_SettledViewIsCurrent ==
  \A v \in Views :
    (Settled(v) /\ View(v).eff = View(v).inst)
      => View(v).complaints = Query(store, ScopeOf(v, View(v)))

\* C24: App renders the CompanyDashboard only for a session whose user has
\* the role company
C24_StaffViewOnlyForStaff ==
  AppRendered = "company" => RoleOf(app.session) = "company"

\* the derived state is the one of the current list and filter
InStep(s) ==
  /\ s.filteredComplaints = FilterComplaints(s.complaints, s.filter)
  /\ s.stats = CalculateStats(s.complaints)

\* C25: in the staff's view every new list and every new filter makes the
\* derive effect due, the effect can always run when it is due and nothing
\* else of the view changes before it has, and whenever it is not due
\* filteredComplaints is filterComplaints of the current list and filter and
\* stats are the counts of the current list
C25_DerivedInStep ==
  [][/\ (staff'.active /\ staff.active /\ staff'.inst = staff.inst
          /\ (staff'.filter # staff.filter
               \/ staff'.complaints # staff.complaints))
          => staff'.derive
     /\ (staff.active /\ staff.derive)
          => /\ ENABLED StaffDerive
             /\ staff' # staff => (~staff'.derive /\ staff'.active)
     /\ (staff'.active /\ ~staff'.derive) => InStep(staff')]_vars

\* the list holds a completed complaint, the filter has been changed from
\* pending to completed and the effect has run
C25_Witness ==
  /\ staff.active
  /\ ~staff.derive
  /\ ~staff.loading
  /\ staff.filter = "completed"
  /\ Len(staff.complaints) = 1
  /\ staff.complaints[1].status = "completed"
  /\ staff.filteredComplaints = staff.complaints
  /\ staff.stats = [total |-> 1, pending |-> 0, inProgress |-> 0, completed |-> 1]

====
